---- MODULE Spec2Model ----
(***************************************************************************)
(* The participant ledger of bot.py: a CSV file rewritten on every write.  *)
(*                                                                         *)
(* The handlers are coroutines of one asyncio event loop (run_polling /    *)
(* run_webhook); upsert_participant and set_user_lang are plain `def`      *)
(* functions without an await, so a call keeps the interpreter from its    *)
(* first line to its return.  The model keeps every file-system step of a  *)
(* call as a step of its own, so that a process crash or an I/O error can  *)
(* fall between any two of them.                                           *)
(*                                                                         *)
(* Spec         the calls of upsert_participant and set_user_lang, with    *)
(*              crashes and I/O errors;                                    *)
(* SpecHandlers the handlers start, button, on_setlang and export_cmd as   *)
(*              coroutines that give way at an await;                      *)
(* SpecRead     get_user_lang, stats, list_participants, the text export   *)
(*              and set_user_lang applied to any file found at CSV_PATH.   *)
(***************************************************************************)
EXTENDS Integers, Sequences, FiniteSets, TLC

\* ---------------------------------------------------------------- bounds
NumUsers == 2
NumTasks == 2
MaxCalls == 2

Users == 1..NumUsers
Tasks == 1..NumTasks

\* No handler holds the event loop.
NoTask == 0

\* ------------------------------------------------------------- constants
CSV_HEADER ==
    <<"user_id", "username", "full_name", "first_seen", "last_participated", "source", "lang">>

LANGS == <<"ru", "uz">>

\* Python's None as an argument value (lang: Optional[str] = None).
NoneArg == "<None>"

\* x in LANGS
InLangs(x) == \E i \in 1..Len(LANGS) : LANGS[i] = x

\* x or ""
OrEmpty(x) == IF x = NoneArg \/ x = "" THEN "" ELSE x

\* str(user_id)
Str(n) == ToString(n)

\* --------------------------------------------------------------- inputs
\* The lang arguments: absent, the two supported codes, an unsupported one.
LangArgs == {NoneArg, "ru", "uz", "en"}

\* The arguments of upsert_participant besides the user_id: what start
\* (lines 204-210) and button (lines 283-289) pass, for a user with and a
\* user without a username, each with a lang in LANGS and one outside.
UpsertArgs ==
    { [username |-> "alice", full_name |-> "Alice A", source |-> "/start", lang |-> NoneArg],
      [username |-> "alice", full_name |-> "Alice A", source |-> "/start", lang |-> "uz"],
      [username |-> "", full_name |-> "Bob", source |-> "button", lang |-> "ru"],
      [username |-> "", full_name |-> "Bob", source |-> "button", lang |-> "en"] }

NoCall ==
    [op |-> "none", user_id |-> 0, username |-> "", full_name |-> "",
     source |-> "", lang |-> ""]

UpsertCalls ==
    { [op |-> "upsert", user_id |-> u, username |-> a.username,
       full_name |-> a.full_name, source |-> a.source, lang |-> a.lang] :
         u \in Users, a \in UpsertArgs }

SetLangCalls ==
    { [op |-> "set_lang", user_id |-> u, username |-> "", full_name |-> "",
       source |-> "", lang |-> l] : u \in Users, l \in LangArgs }

Calls == UpsertCalls \cup SetLangCalls

\* ------------------------------------------------------------ timestamps
\* The clock counts half seconds.  datetime.isoformat() prints the seconds
\* in a fixed width and appends ".ffffff" only when the microsecond part is
\* not zero; the text is a sequence of character codes, the seconds field
\* being one code.
Dot == 0 - 1

IsoFormat(n) ==
    IF n % 2 = 0 THEN <<n \div 2>> ELSE <<n \div 2, Dot, 5>>

\* Python's str comparison a <= b: code point by code point, a proper prefix
\* being the smaller.
RECURSIVE StrLeq(_, _)
StrLeq(a, b) ==
    IF a = <<>> THEN TRUE
    ELSE IF b = <<>> THEN FALSE
    ELSE IF Head(a) # Head(b) THEN Head(a) < Head(b)
    ELSE StrLeq(Tail(a), Tail(b))

\* ----------------------------------------------------------------- files
NoFile == [exists |-> FALSE, hdr |-> <<>>, rows |-> <<>>]

\* open(path, "w"): the file exists and is empty.
OpenW == [exists |-> TRUE, hdr |-> <<>>, rows |-> <<>>]

\* ------------------------------------------------------------ dictionary
\* A dict is the sequence of its values in insertion order; the key of a
\* value is its user_id field.
DictFind(data, key) ==
    IF \E i \in 1..Len(data) : data[i]["user_id"] = key
    THEN CHOOSE i \in 1..Len(data) : data[i]["user_id"] = key
    ELSE 0

\* data[key] = row
DictPut(data, key, row) ==
    IF DictFind(data, key) # 0
    THEN [data EXCEPT ![DictFind(data, key)] = row]
    ELSE Append(data, row)

\* csv.DictReader: a line becomes the dict from the header's names to the
\* line's fields; a line shorter than the header gives None (restval) for
\* the names it has no field for.
RowToDict(hdr, line) ==
    [k \in {hdr[i] : i \in 1..Len(hdr)} |->
        LET i == CHOOSE j \in 1..Len(hdr) : hdr[j] = k
        IN  IF i <= Len(line) THEN line[i] ELSE NoneArg]

\* csv.DictWriter(fieldnames=CSV_HEADER).writerow: None is written as the
\* empty field.  Only a text field can hold None here: the lines this model
\* reads are short by the lang at most.
DictToRow(row) ==
    [i \in 1..Len(CSV_HEADER) |->
        IF CSV_HEADER[i] \in {"first_seen", "last_participated"}
        THEN row[CSV_HEADER[i]]
        ELSE IF row[CSV_HEADER[i]] = NoneArg THEN "" ELSE row[CSV_HEADER[i]]]

RECURSIVE ReadRows(_, _, _)
ReadRows(hdr, lines, data) ==
    IF lines = <<>> THEN data
    ELSE LET row == RowToDict(hdr, Head(lines))
         IN  ReadRows(hdr, Tail(lines), DictPut(data, row["user_id"], row))

\* The body of _load_participants after _ensure_csv: an empty file has no
\* header and gives no row.
ReadFile(f) ==
    IF f.hdr = <<>> THEN <<>> ELSE ReadRows(f.hdr, f.rows, <<>>)

\* _ensure_csv as one step, for a reader that is not interrupted.
EnsureCsv(f) ==
    IF f.exists THEN f ELSE [exists |-> TRUE, hdr |-> CSV_HEADER, rows |-> <<>>]

\* _load_participants
LoadParticipants(f) == ReadFile(EnsureCsv(f))

\* ----------------------------------------------------------- mutations
NewRow(key, username, full_name, now, source, lang) ==
    [user_id |-> key, username |-> username, full_name |-> full_name,
     first_seen |-> now, last_participated |-> now, source |-> source,
     lang |-> lang]

\* Mutants of Upsert: the slips the claims below must notice.
UpsertBody(data, c, now, fresh, fs, lp, src, keep, dflt) ==
    LET key == Str(c.user_id)
        i == DictFind(data, key)
    IN  IF i # 0 /\ ~fresh
        THEN [data EXCEPT ![i] =
                [@ EXCEPT !["username"] = OrEmpty(c.username),
                          !["full_name"] = OrEmpty(c.full_name),
                          !["first_seen"] = IF fs THEN now ELSE @,
                          !["last_participated"] = IF lp THEN now ELSE @,
                          !["source"] = IF src THEN c.source ELSE @,
                          !["lang"] = IF InLangs(c.lang) THEN c.lang
                                      ELSE IF keep THEN @ ELSE "ru"]]
        ELSE Append(data,
                NewRow(key, OrEmpty(c.username), OrEmpty(c.full_name), now, c.source,
                       IF InLangs(c.lang) \/ ~dflt THEN c.lang ELSE "ru"))

\* data[key] = {...} in both branches, as if a dict kept every assignment
UpsertAlwaysAppends(data, c, now) ==
    UpsertBody(data, c, now, TRUE, FALSE, TRUE, TRUE, TRUE, TRUE)

\* row["first_seen"] = now added to the update branch
UpsertResetsFirstSeen(data, c, now) ==
    UpsertBody(data, c, now, FALSE, TRUE, TRUE, TRUE, TRUE, TRUE)

\* row["first_seen"] = now in place of row["last_participated"] = now
UpsertWrongTimeField(data, c, now) ==
    UpsertBody(data, c, now, FALSE, TRUE, FALSE, TRUE, TRUE, TRUE)

\* "lang": lang in the new record
UpsertStoresLangAsGiven(data, c, now) ==
    UpsertBody(data, c, now, FALSE, FALSE, TRUE, TRUE, TRUE, FALSE)

\* row["lang"] = lang if lang in LANGS else "ru" in the update branch
UpsertNormalizesLang(data, c, now) ==
    UpsertBody(data, c, now, FALSE, FALSE, TRUE, TRUE, FALSE, TRUE)

\* row["source"] = source left out of the update branch
UpsertKeepsSource(data, c, now) ==
    UpsertBody(data, c, now, FALSE, FALSE, TRUE, FALSE, TRUE, TRUE)

\* upsert_participant, lines 153-171
Upsert(data, c, now) ==
    LET key == Str(c.user_id)
        i == DictFind(data, key)
    IN  IF i # 0
        THEN [data EXCEPT ![i] =
                [@ EXCEPT !["username"] = OrEmpty(c.username),
                          !["full_name"] = OrEmpty(c.full_name),
                          !["last_participated"] = now,
                          !["source"] = c.source,
                          !["lang"] = IF InLangs(c.lang) THEN c.lang ELSE @]]
        ELSE Append(data,
                NewRow(key, OrEmpty(c.username), OrEmpty(c.full_name), now, c.source,
                       IF InLangs(c.lang) THEN c.lang ELSE "ru"))

\* Mutant of SetLang: lines 175-176 left out, the code stored as given.
SetLangStoresAsGiven(data, c, now) ==
    LET key == Str(c.user_id)
        i == DictFind(data, key)
    IN  IF i # 0
        THEN [data EXCEPT ![i] = [@ EXCEPT !["lang"] = c.lang]]
        ELSE Append(data, NewRow(key, "", "", now, "lang", c.lang))

\* Mutant of SetLang: the existing record also gets last_participated = now.
SetLangRefreshesLastParticipated(data, c, now) ==
    LET lang == IF InLangs(c.lang) THEN c.lang ELSE "ru"
        key == Str(c.user_id)
        i == DictFind(data, key)
    IN  IF i # 0
        THEN [data EXCEPT ![i] = [@ EXCEPT !["lang"] = lang, !["last_participated"] = now]]
        ELSE Append(data, NewRow(key, "", "", now, "lang", lang))

\* set_user_lang, lines 175-192
SetLang(data, c, now) ==
    LET lang == IF InLangs(c.lang) THEN c.lang ELSE "ru"
        key == Str(c.user_id)
        i == DictFind(data, key)
    IN  IF i # 0
        THEN [data EXCEPT ![i] = [@ EXCEPT !["lang"] = lang]]
        ELSE Append(data, NewRow(key, "", "", now, "lang", lang))

Mutate(data, c, now) ==
    IF c.op = "upsert" THEN Upsert(data, c, now)
    ELSE IF c.op = "set_lang" THEN SetLang(data, c, now)
    ELSE data

\* Mutant of GetUserLang: the stored code returned without the test against
\* LANGS.
GetUserLangUnchecked(f, user_id) ==
    LET d == LoadParticipants(f)
        i == DictFind(d, Str(user_id))
    IN  IF i # 0 /\ d[i]["lang"] \notin {NoneArg, ""} THEN d[i]["lang"] ELSE "ru"

\* get_user_lang, lines 144-148
GetUserLang(f, user_id) ==
    LET d == LoadParticipants(f)
        i == DictFind(d, Str(user_id))
    IN  IF i # 0 /\ InLangs(d[i]["lang"]) THEN d[i]["lang"] ELSE "ru"

\* ----------------------------------------------------------------- state
VARIABLES
    csv,        \* the file at CSV_PATH
    tmp,        \* the file at CSV_PATH + ".tmp"
    clock,      \* the wall clock, in half seconds
    ncalls,     \* the number of calls made so far
    running,    \* the task whose synchronous code holds the event loop
    pc,         \* per task: the step its call is at
    call,       \* per task: the arguments of its call
    now,        \* per task: the local `now`
    data,       \* per task: the local `data`
    idx,        \* per task: the next row of `for row in data.values()`
    before,     \* history, per task: what the store held when the call began
    serial,     \* history: the calls that returned, applied one after another
    applied,    \* history: the user_ids of the calls that returned
    last,       \* history: how the latest call ended, until the next one starts
    out         \* what the latest read operation gave its caller

vars == <<csv, tmp, clock, ncalls, running, pc, call, now, data, idx, before, serial, applied, last, out>>

locals == <<call, now, data, idx, before>>
history == <<serial, applied, last>>

\* last.fault is what the environment did to the call ("none", "io": a
\* file-system call failed, "crash": the process died); last.kind is what the
\* caller got ("ok": the call returned, "raised": an exception, "crash":
\* nothing); last.at is the step the call was at; last.pre is the record set
\* the store held when the call began.
NoLast ==
    [kind |-> "none", fault |-> "none", at |-> "idle",
     call |-> NoCall, now |-> <<>>, pre |-> <<>>]

\* No read operation has answered yet.
NoOut == [op |-> "none"]

Init ==
    /\ csv = NoFile
    /\ tmp = NoFile
    /\ clock = 0
    /\ ncalls = 0
    /\ running = NoTask
    /\ pc = [t \in Tasks |-> "idle"]
    /\ call = [t \in Tasks |-> NoCall]
    /\ now = [t \in Tasks |-> <<>>]
    /\ data = [t \in Tasks |-> <<>>]
    /\ idx = [t \in Tasks |-> 0]
    /\ before = [t \in Tasks |-> <<>>]
    /\ serial = <<>>
    /\ applied = {}
    /\ last = NoLast
    /\ out = NoOut

\* The steps of a call that are file-system calls.
IoSteps == {"ensure", "ensure_open", "ensure_header", "load", "open_tmp", "write_header", "write_row", "replace"}

\* The steps of _save_participants.
SaveSteps == {"open_tmp", "write_header", "write_row", "replace"}

\* Mutant of Holder: an await between the load and the change.
HolderYieldsAfterLoad(t, next) == IF next \in {"idle", "modify"} THEN NoTask ELSE t

\* Mutant of Holder: an await between the existence test of _ensure_csv and
\* its open().
HolderYieldsAfterExists(t, next) ==
    IF next \in {"idle", "await_answer", "ensure_open"} THEN NoTask ELSE t

\* Who holds the event loop after a step of task t that leads to step `next`:
\* the functions are synchronous, so t does until its call returns or its
\* handler comes to an await (line 280, await q.answer).
Holder(t, next) == IF next \in {"idle", "await_answer"} THEN NoTask ELSE t

Goto(t, next) ==
    /\ pc' = [pc EXCEPT ![t] = next]
    /\ running' = Holder(t, next)

\* The call of task t is over: its locals are gone.
Return(t) ==
    /\ call' = [call EXCEPT ![t] = NoCall]
    /\ now' = [now EXCEPT ![t] = <<>>]
    /\ data' = [data EXCEPT ![t] = <<>>]
    /\ idx' = [idx EXCEPT ![t] = 0]
    /\ before' = [before EXCEPT ![t] = <<>>]
    /\ Goto(t, "idle")

\* Task t enters upsert_participant or set_user_lang with the arguments c:
\* line 151 / 177 reads the clock, which has not gone back since it was last
\* read.
Enter(t, c) ==
    /\ \E n \in clock..(clock + 1) :
        /\ clock' = n
        /\ now' = [now EXCEPT ![t] = IsoFormat(n)]
    /\ call' = [call EXCEPT ![t] = c]
    /\ data' = [data EXCEPT ![t] = <<>>]
    /\ idx' = [idx EXCEPT ![t] = 0]
    /\ before' = [before EXCEPT ![t] = LoadParticipants(csv)]
    /\ last' = NoLast
    /\ out' = NoOut
    /\ Goto(t, "ensure")
    /\ UNCHANGED <<serial, applied>>

\* A handler calls upsert_participant or set_user_lang.
Start(t) ==
    /\ running = NoTask
    /\ pc[t] = "idle"
    /\ ncalls < MaxCalls
    /\ ncalls' = ncalls + 1
    /\ \E c \in Calls : Enter(t, c)
    /\ UNCHANGED <<csv, tmp>>

\* Mutant of Exists: _ensure_csv without its test.
ExistsNever(f) == FALSE

\* os.path.exists
Exists(f) == f.exists

\* Mutant of OpenForWrite: the file opened with "a".
OpenForAppend(f) == IF f.exists THEN f ELSE OpenW

\* open(path, "w") on the file f now at the path: what was there is gone.
OpenForWrite(f) == OpenW

\* After _ensure_csv: _load_participants goes on reading (line 127),
\* export_cmd has nothing more to do with the store (line 377).
AfterEnsure(t) ==
    IF call[t].op = "export_csv"
    THEN Return(t) /\ out' = [op |-> "export_csv", file |-> csv']
    ELSE Goto(t, "load") /\ UNCHANGED <<locals, out>>

\* _ensure_csv, line 120: the existence test.
Ensure(t) ==
    /\ running = t
    /\ pc[t] = "ensure"
    /\ csv' = csv
    /\ IF Exists(csv)
       THEN AfterEnsure(t)
       ELSE Goto(t, "ensure_open") /\ UNCHANGED <<locals, out>>
    /\ UNCHANGED <<tmp, clock, ncalls, history>>

\* _ensure_csv, line 121: open(CSV_PATH, "w").
EnsureOpen(t) ==
    /\ running = t
    /\ pc[t] = "ensure_open"
    /\ csv' = OpenForWrite(csv)
    /\ Goto(t, "ensure_header")
    /\ UNCHANGED <<tmp, clock, ncalls, locals, history, out>>

\* _ensure_csv, lines 122-123: the header row.
EnsureHeader(t) ==
    /\ running = t
    /\ pc[t] = "ensure_header"
    /\ csv' = [csv EXCEPT !.hdr = CSV_HEADER]
    /\ AfterEnsure(t)
    /\ UNCHANGED <<tmp, clock, ncalls, history>>

\* _load_participants, lines 127-132.
Load(t) ==
    /\ running = t
    /\ pc[t] = "load"
    /\ data' = [data EXCEPT ![t] = ReadFile(csv)]
    /\ Goto(t, "modify")
    /\ UNCHANGED <<csv, tmp, clock, ncalls, call, now, idx, before, history, out>>

\* Lines 153-171 and 179-192: the change of the loaded dict.
Modify(t) ==
    /\ running = t
    /\ pc[t] = "modify"
    /\ data' = [data EXCEPT ![t] = Mutate(data[t], call[t], now[t])]
    /\ Goto(t, "open_tmp")
    /\ UNCHANGED <<csv, tmp, clock, ncalls, call, now, idx, before, history, out>>

\* Mutant of SavePath: the rows written straight to CSV_PATH.
SavePathInPlace == "csv"

\* The file _save_participants writes: line 135.
SavePath == "tmp"

WriteTo(f) ==
    IF SavePath = "tmp"
    THEN tmp' = f /\ csv' = csv
    ELSE csv' = f /\ tmp' = tmp

Written == IF SavePath = "tmp" THEN tmp ELSE csv

\* _save_participants, line 136: open(tmp, "w").
OpenTmp(t) ==
    /\ running = t
    /\ pc[t] = "open_tmp"
    /\ WriteTo(OpenForWrite(Written))
    /\ Goto(t, "write_header")
    /\ UNCHANGED <<clock, ncalls, locals, history, out>>

\* Lines 137-138: writer.writeheader().
WriteHeader(t) ==
    /\ running = t
    /\ pc[t] = "write_header"
    /\ WriteTo([Written EXCEPT !.hdr = CSV_HEADER])
    /\ idx' = [idx EXCEPT ![t] = 1]
    /\ Goto(t, IF Len(data[t]) = 0 THEN "replace" ELSE "write_row")
    /\ UNCHANGED <<clock, ncalls, call, now, data, before, history, out>>

\* Lines 139-140: one turn of the loop over data.values().
WriteRow(t) ==
    /\ running = t
    /\ pc[t] = "write_row"
    /\ WriteTo([Written EXCEPT !.rows = Append(@, DictToRow(data[t][idx[t]]))])
    /\ idx' = [idx EXCEPT ![t] = @ + 1]
    /\ Goto(t, IF idx[t] = Len(data[t]) THEN "replace" ELSE "write_row")
    /\ UNCHANGED <<clock, ncalls, call, now, data, before, history, out>>

\* Line 141, os.replace(tmp, CSV_PATH), and the return of the call.
Replace(t) ==
    /\ running = t
    /\ pc[t] = "replace"
    /\ IF SavePath = "tmp"
       THEN csv' = tmp /\ tmp' = NoFile
       ELSE csv' = csv /\ tmp' = tmp
    /\ serial' = Mutate(serial, call[t], now[t])
    /\ applied' = applied \cup {call[t].user_id}
    /\ last' = [kind |-> "ok", fault |-> "none", at |-> "replace", call |-> call[t],
                now |-> now[t], pre |-> before[t]]
    /\ Return(t)
    /\ UNCHANGED <<clock, ncalls, out>>

\* Mutant of OnIOError: try/except around the save, the call returns.
OnIOErrorSwallowed(t) == "ok"

\* What a call that meets an OSError does: neither _save_participants nor
\* upsert_participant / set_user_lang has a handler, so the error leaves the
\* call ("raised").
OnIOError(t) == "raised"

\* A file-system call of task t fails and changes no file.
IoError(t) ==
    /\ running = t
    /\ pc[t] \in IoSteps
    /\ last' = [kind |-> OnIOError(t), fault |-> "io", at |-> pc[t], call |-> NoCall,
                now |-> <<>>, pre |-> before[t]]
    /\ Return(t)
    /\ UNCHANGED <<csv, tmp, clock, ncalls, serial, applied, out>>

\* The process dies in the middle of a call and is started again: the files
\* stay, everything in memory is gone.
Crash ==
    /\ running # NoTask
    /\ last' = [kind |-> "crash", fault |-> "crash", at |-> pc[running],
                call |-> NoCall, now |-> <<>>, pre |-> before[running]]
    /\ pc' = [t \in Tasks |-> "idle"]
    /\ running' = NoTask
    /\ call' = [t \in Tasks |-> NoCall]
    /\ now' = [t \in Tasks |-> <<>>]
    /\ data' = [t \in Tasks |-> <<>>]
    /\ idx' = [t \in Tasks |-> 0]
    /\ before' = [t \in Tasks |-> <<>>]
    /\ UNCHANGED <<csv, tmp, clock, ncalls, serial, applied, out>>

Next ==
    \/ \E t \in Tasks : Start(t)
    \/ \E t \in Tasks : Ensure(t)
    \/ \E t \in Tasks : EnsureOpen(t)
    \/ \E t \in Tasks : EnsureHeader(t)
    \/ \E t \in Tasks : Load(t)
    \/ \E t \in Tasks : Modify(t)
    \/ \E t \in Tasks : OpenTmp(t)
    \/ \E t \in Tasks : WriteHeader(t)
    \/ \E t \in Tasks : WriteRow(t)
    \/ \E t \in Tasks : Replace(t)
    \/ \E t \in Tasks : IoError(t)
    \/ Crash

Spec == Init /\ [][Next]_vars

\* ------------------------------------------------------------- handlers
\* The handlers that reach the store, each as the coroutine it is: it runs
\* until it returns or awaits, and another handler can run while it awaits.
MaxHandlers == 3

ExportCsvCall == [NoCall EXCEPT !.op = "export_csv"]

\* user.username and user.full_name of the update, as in UpsertArgs: /start
\* comes from the user with a username, the button from the one without.
Profile(source) == CHOOSE a \in UpsertArgs : a.source = source

\* An update is handled by a new task: the first one that is free.
HandlerBegins(t) ==
    /\ running = NoTask
    /\ pc[t] = "idle"
    /\ \A t2 \in Tasks : t2 < t => pc[t2] # "idle"
    /\ ncalls < MaxHandlers
    /\ ncalls' = ncalls + 1

\* get_user_lang at the head of start and button: _ensure_csv may create the
\* file.
HandlerCall(u, source) ==
    [op |-> "upsert", user_id |-> u, username |-> Profile(source).username,
     full_name |-> Profile(source).full_name, source |-> source,
     lang |-> GetUserLang(csv, u)]

\* start, lines 203-210: get_user_lang and upsert_participant with no await
\* between them.
OnStart(t) ==
    /\ HandlerBegins(t)
    /\ csv' = EnsureCsv(csv)
    /\ \E u \in Users : Enter(t, HandlerCall(u, "/start"))
    /\ UNCHANGED tmp

\* button, lines 276-280: get_user_lang, then await q.answer.
OnButton(t) ==
    /\ HandlerBegins(t)
    /\ csv' = EnsureCsv(csv)
    /\ \E u \in Users : call' = [call EXCEPT ![t] = HandlerCall(u, "button")]
    /\ last' = NoLast
    /\ out' = NoOut
    /\ Goto(t, "await_answer")
    /\ UNCHANGED <<tmp, clock, now, data, idx, before, serial, applied>>

\* The event loop goes on with a coroutine that was suspended.
Resume(t) ==
    /\ running = NoTask
    /\ pc[t] # "idle"
    /\ running' = t
    /\ UNCHANGED <<csv, tmp, clock, ncalls, pc, locals, history, out>>

\* button, lines 283-289: upsert_participant with the lang read at line 277.
OnButtonAnswered(t) ==
    /\ running = t
    /\ pc[t] = "await_answer"
    /\ Enter(t, call[t])
    /\ UNCHANGED <<csv, tmp, ncalls>>

\* on_setlang, lines 228-230: await q.answer, then set_user_lang with the
\* text after "setlang:".
OnSetLang(t) ==
    /\ HandlerBegins(t)
    /\ \E c \in SetLangCalls : c.lang # NoneArg /\ Enter(t, c)
    /\ UNCHANGED <<csv, tmp>>

\* export_cmd with the format csv, lines 375-377: _ensure_csv, then the file
\* is sent.
OnExportCsv(t) ==
    /\ HandlerBegins(t)
    /\ call' = [call EXCEPT ![t] = ExportCsvCall]
    /\ last' = NoLast
    /\ out' = NoOut
    /\ Goto(t, "ensure")
    /\ UNCHANGED <<csv, tmp, clock, now, data, idx, before, serial, applied>>

NextHandlers ==
    \/ \E t \in Tasks : OnStart(t)
    \/ \E t \in Tasks : OnButton(t)
    \/ \E t \in Tasks : Resume(t)
    \/ \E t \in Tasks : OnButtonAnswered(t)
    \/ \E t \in Tasks : OnSetLang(t)
    \/ \E t \in Tasks : OnExportCsv(t)
    \/ \E t \in Tasks : Ensure(t)
    \/ \E t \in Tasks : EnsureOpen(t)
    \/ \E t \in Tasks : EnsureHeader(t)
    \/ \E t \in Tasks : Load(t)
    \/ \E t \in Tasks : Modify(t)
    \/ \E t \in Tasks : OpenTmp(t)
    \/ \E t \in Tasks : WriteHeader(t)
    \/ \E t \in Tasks : WriteRow(t)
    \/ \E t \in Tasks : Replace(t)

SpecHandlers == Init /\ [][NextHandlers]_vars

\* What a reader gets from the store.
View == LoadParticipants(csv)

\* stats, lines 349-350: total = len(data)
StatsTotal == Len(LoadParticipants(csv))

Keys(d) == {d[i]["user_id"] : i \in 1..Len(d)}

\* The record of key k in the record set d.
Rec(d, k) == d[DictFind(d, k)]

\* ---------------------------------------------------------- read path
\* The read operations are functions of the file they find at CSV_PATH.  The
\* file need not have been written by this program: its lines are drawn from
\* StoredLines, which has lines with a foreign, an empty and a missing lang,
\* equal and empty last_participated, and tab characters in the text fields.
MaxRows == 3

StoredLines ==
    { <<"1", "alice", "Alice A", IsoFormat(0), IsoFormat(2), "/start", "uz">>,
      <<"2", "", "Bob", IsoFormat(1), IsoFormat(2), "button", "ru">>,
      <<"2", "", "", IsoFormat(3), IsoFormat(3), "lang", "en">>,
      <<"1", "alice", "Al\tA", IsoFormat(0), IsoFormat(1), "button", "">>,
      <<"2", "b\tob", "Bob", IsoFormat(1), <<>>, "button", "uz">>,
      <<"3", "", "Bob", IsoFormat(2), IsoFormat(3), "but\tton", "ru">>,
      <<"1", "", "Bob", IsoFormat(2), IsoFormat(2), "button">> }

RECURSIVE SeqsUpTo(_, _)
SeqsUpTo(S, n) ==
    IF n = 0 THEN {<<>>}
    ELSE LET shorter == SeqsUpTo(S, n - 1)
         IN  shorter \cup {Append(q, x) : q \in shorter, x \in S}

StoredFiles ==
    {NoFile} \cup
    {[exists |-> TRUE, hdr |-> CSV_HEADER, rows |-> rows] : rows \in SeqsUpTo(StoredLines, MaxRows)}

InitRead ==
    /\ csv \in StoredFiles
    /\ tmp = NoFile
    /\ clock = 4
    /\ ncalls = 0
    /\ running = NoTask
    /\ pc = [t \in Tasks |-> "idle"]
    /\ call = [t \in Tasks |-> NoCall]
    /\ now = [t \in Tasks |-> <<>>]
    /\ data = [t \in Tasks |-> <<>>]
    /\ idx = [t \in Tasks |-> 0]
    /\ before = [t \in Tasks |-> <<>>]
    /\ serial = <<>>
    /\ applied = {}
    /\ last = NoLast
    /\ out = NoOut

\* What a read operation leaves alone: everything but the file _ensure_csv
\* may create and the answer.
\* A read operation is applied to the file as it was found, before any call
\* of the run has rewritten it.
ReadFrame ==
    /\ ncalls = 0
    /\ UNCHANGED <<tmp, clock, ncalls, running, pc, locals, history>>

\* The file _save_participants leaves at CSV_PATH when nothing interrupts it.
SavedFile(d) ==
    [exists |-> TRUE, hdr |-> CSV_HEADER, rows |-> [i \in 1..Len(d) |-> DictToRow(d[i])]]

\* set_user_lang from its first line to its return, on the file as it was
\* found.
SetUserLangCall ==
    /\ running = NoTask
    /\ ncalls = 0
    /\ ncalls' = ncalls + 1
    /\ \E c \in SetLangCalls, n \in clock..(clock + 1) :
        /\ clock' = n
        /\ csv' = SavedFile(SetLang(LoadParticipants(csv), c, IsoFormat(n)))
        /\ last' = [kind |-> "ok", fault |-> "none", at |-> "replace", call |-> c,
                    now |-> IsoFormat(n), pre |-> LoadParticipants(csv)]
    /\ out' = NoOut
    /\ UNCHANGED <<tmp, running, pc, locals, serial, applied>>

\* A handler asks for the language of a user (lines 203, 216, 277, ...).
GetUserLangCall ==
    /\ \E u \in Users :
        out' = [op |-> "get_user_lang", user_id |-> u, result |-> GetUserLang(csv, u)]
    /\ csv' = EnsureCsv(csv)
    /\ ReadFrame

\* stats, lines 352-355: the dict by_lang as a function from its keys.
RECURSIVE ByLang(_, _)
ByLang(d, by_lang) ==
    IF d = <<>> THEN by_lang
    ELSE LET row == Head(d)
             l == IF row["lang"] \in {NoneArg, ""} THEN "ru" ELSE row["lang"]
         IN  ByLang(Tail(d),
                    [k \in DOMAIN by_lang \cup {l} |->
                        (IF k \in DOMAIN by_lang THEN by_lang[k] ELSE 0)
                        + (IF k = l THEN 1 ELSE 0)])

\* stats, lines 349-355
StatsCall ==
    /\ out' = [op |-> "stats",
               total |-> Len(LoadParticipants(csv)),
               by_lang |-> ByLang(LoadParticipants(csv), [k \in {"ru", "uz"} |-> 0])]
    /\ csv' = EnsureCsv(csv)
    /\ ReadFrame

\* ------------------------------------------------------------------ /list
\* context.args: no argument, or the text after the command as characters.
ArgTexts ==
    { <<"0">>, <<"-", "3">>, <<"1">>, <<"+", "2">>, <<"2", "0", "0">>,
      <<"2", "0", "1">>, <<"5", "0", "0">>, <<"a", "b", "c">>, <<"1", ".", "5">>, <<"-">> }

ListArgs == {<<>>} \cup {<<x>> : x \in ArgTexts}

Digits == <<"0", "1", "2", "3", "4", "5", "6", "7", "8", "9">>

IsDigit(c) == \E i \in 1..Len(Digits) : Digits[i] = c

DigitValue(c) == (CHOOSE i \in 1..Len(Digits) : Digits[i] = c) - 1

RECURSIVE DigitsValue(_, _)
DigitsValue(text, acc) ==
    IF text = <<>> THEN acc
    ELSE DigitsValue(Tail(text), acc * Len(Digits) + DigitValue(Head(text)))

\* int(text): an optional sign and at least one digit, anything else raises
\* ValueError.
ParseInt(text) ==
    LET signed == text # <<>> /\ Head(text) \in {"-", "+"}
        digits == IF signed THEN Tail(text) ELSE text
    IN  IF digits # <<>> /\ \A i \in 1..Len(digits) : IsDigit(digits[i])
        THEN [ok |-> TRUE,
              val |-> IF signed /\ Head(text) = "-"
                      THEN 0 - DigitsValue(digits, 0)
                      ELSE DigitsValue(digits, 0)]
        ELSE [ok |-> FALSE, val |-> 0]

ListDefault == 20
ListMin == 1
ListMax == 200

\* Mutant of ListSize: lines 308-309 left out.
ListSizeNoLowerClamp(args) ==
    IF args = <<>> THEN ListDefault
    ELSE IF ~ParseInt(args[1]).ok THEN ListDefault
    ELSE IF ParseInt(args[1]).val > ListMax THEN ListMax ELSE ParseInt(args[1]).val

\* list_participants, lines 306-313
ListSize(args) ==
    LET parsed == IF args = <<>> THEN [ok |-> TRUE, val |-> ListDefault] ELSE ParseInt(args[1])
        n1 == IF parsed.val < ListMin THEN ListMin ELSE parsed.val
        n2 == IF n1 > ListMax THEN ListMax ELSE n1
    IN  IF parsed.ok THEN n2 ELSE ListDefault

\* The sort key of lines 317 and 383; `or ""` turns a missing time into the
\* empty text, which is <<>> here already.
SortKey(r) == r["last_participated"]

\* a < b for str
StrLess(a, b) == StrLeq(a, b) /\ a # b

\* Mutant of InsertDesc: ascending sort followed by reverse(), which turns
\* the order of equal keys around.
InsertDescBeforeEqual(sorted, r) ==
    LET smaller == {i \in 1..Len(sorted) : StrLeq(SortKey(sorted[i]), SortKey(r))}
        at == IF smaller = {} THEN Len(sorted) + 1
              ELSE CHOOSE i \in smaller : \A j \in smaller : i <= j
    IN  SubSeq(sorted, 1, at - 1) \o <<r>> \o SubSeq(sorted, at, Len(sorted))

\* Where list.sort(key=..., reverse=True) puts r among the rows it has
\* placed: before the first row with a smaller key, so after the rows with
\* an equal key that came before it (the sort is stable, reverse included).
InsertDesc(sorted, r) ==
    LET smaller == {i \in 1..Len(sorted) : StrLess(SortKey(sorted[i]), SortKey(r))}
        at == IF smaller = {} THEN Len(sorted) + 1
              ELSE CHOOSE i \in smaller : \A j \in smaller : i <= j
    IN  SubSeq(sorted, 1, at - 1) \o <<r>> \o SubSeq(sorted, at, Len(sorted))

RECURSIVE SortDesc(_, _)
SortDesc(rows, sorted) ==
    IF rows = <<>> THEN sorted
    ELSE SortDesc(Tail(rows), InsertDesc(sorted, Head(rows)))

\* rows[:n]
Slice(rows, n) ==
    IF n >= 0
    THEN SubSeq(rows, 1, IF n < Len(rows) THEN n ELSE Len(rows))
    ELSE SubSeq(rows, 1, IF Len(rows) + n > 0 THEN Len(rows) + n ELSE 0)

\* list_participants, lines 306-323
ListCall ==
    /\ \E args \in ListArgs :
        out' = [op |-> "list", args |-> args, n |-> ListSize(args),
                rows |-> Slice(SortDesc(LoadParticipants(csv), <<>>), ListSize(args)),
                empty |-> (Slice(SortDesc(LoadParticipants(csv), <<>>), ListSize(args)) = <<>>)]
    /\ csv' = EnsureCsv(csv)
    /\ ReadFrame

\* ---------------------------------------------------------------- /export
\* The characters of a text, as far as the export cares: the tab characters
\* and the runs of other characters between them.  None is formatted as
\* "None" by an f-string.
Chars(s) ==
    CASE s = "" -> <<>>
      [] s = NoneArg -> <<"None">>
      [] s = "Al\tA" -> <<"Al", "\t", "A">>
      [] s = "b\tob" -> <<"b", "\t", "ob">>
      [] s = "but\tton" -> <<"but", "\t", "ton">>
      [] OTHER -> <<s>>

\* The characters of a time: digits, "T", ":", "-" and ".", never a tab.
TimeChars(ts) == IF ts = <<>> THEN <<>> ELSE <<ToString(ts)>>

\* .replace(chr(9), ' ')
ReplaceTab(chars) == [i \in 1..Len(chars) |-> IF chars[i] = "\t" THEN " " ELSE chars[i]]

\* export_cmd, lines 389-392: the line of one record, without its "\n".
ExportLine(r) ==
    Chars(r["user_id"]) \o <<"\t">> \o
    Chars(r["username"]) \o <<"\t">> \o
    ReplaceTab(Chars(OrEmpty(r["full_name"]))) \o <<"\t">> \o
    TimeChars(r["first_seen"]) \o <<"\t">> \o
    TimeChars(r["last_participated"]) \o <<"\t">> \o
    Chars(r["source"]) \o <<"\t">> \o
    Chars(r["lang"])

\* line.split("\t")
RECURSIVE SplitTab(_, _, _)
SplitTab(chars, part, parts) ==
    IF chars = <<>> THEN Append(parts, part)
    ELSE IF Head(chars) = "\t"
         THEN SplitTab(Tail(chars), <<>>, Append(parts, part))
         ELSE SplitTab(Tail(chars), Append(part, Head(chars)), parts)

\* export_cmd with the format txt, lines 381-392
ExportTxtCall ==
    /\ LET rows == SortDesc(LoadParticipants(csv), <<>>)
       IN  out' = [op |-> "export_txt", rows |-> rows,
                   lines |-> [i \in 1..Len(rows) |-> ExportLine(rows[i])]]
    /\ csv' = EnsureCsv(csv)
    /\ ReadFrame

NextRead ==
    \/ GetUserLangCall
    \/ ExportTxtCall
    \/ ListCall
    \/ StatsCall
    \/ SetUserLangCall

SpecRead == InitRead /\ [][NextRead]_vars

\* ---------------------------------------------------------------- claims

\* C1: upsert_participant and set_user_lang exclude one another: no two
\* tasks are inside a call at once, and the store is what the calls that
\* returned give when applied one after another, none of them lost.
C1_MutationsSerialized ==
    LET v == View
    IN  /\ \A t1, t2 \in Tasks : t1 # t2 => pc[t1] = "idle" \/ pc[t2] = "idle"
        /\ v = serial
        /\ \A u \in applied : Str(u) \in Keys(v)

\* Two calls for two user_ids have returned and both records are there.
C1_Witness ==
    /\ last.kind = "ok"
    /\ Len(last.pre) = 1
    /\ Len(View) = 2
    /\ ncalls = 2

\* C2: while _save_participants writes, a reader of CSV_PATH gets the whole
\* record set from before the call; once the call has returned, the whole
\* record set the call made; never rows of a file half written.
C2_ReaderSeesWholeSnapshot ==
    LET v == View
    IN  /\ \A t \in Tasks : pc[t] \in SaveSteps => v = before[t]
        /\ last.kind = "ok" => v = Mutate(last.pre, last.call, last.now)
        /\ csv.rows # <<>> => csv.hdr = CSV_HEADER

\* The temporary file holds one of two rows while the store holds the old
\* record set.
C2_Witness ==
    \E t \in Tasks :
        /\ pc[t] = "write_row"
        /\ idx[t] = 2
        /\ Len(tmp.rows) = 1
        /\ Len(data[t]) = 2
        /\ View = before[t]
        /\ before[t] # data[t]

\* C3: after a crash at any step of a call before os.replace, the temporary
\* file fully written included, a read gives the record set the store held
\* when the call began.
C3_CrashKeepsOldSnapshot ==
    last.kind = "crash" => View = last.pre

\* The crash came when the temporary file was complete, and the file differs
\* from the store.
C3_Witness ==
    /\ last.kind = "crash"
    /\ last.at = "replace"
    /\ last.pre # <<>>
    /\ View = last.pre
    /\ tmp.exists
    /\ ReadFile(tmp) # last.pre

\* C4: a failed file-system call of the save (open of the temporary file, a
\* write to it, the rename) reaches the caller as an exception, and the store
\* holds the last record set written with success.
C4_IOErrorRaisedStoreKept ==
    (last.fault = "io" /\ last.at \in SaveSteps) =>
        LET v == View
        IN  /\ last.kind = "raised"
            /\ v = serial
            /\ v = last.pre

\* The rename failed over a store with a record.
C4_Witness ==
    /\ last.fault = "io"
    /\ last.at = "replace"
    /\ last.kind = "raised"
    /\ View # <<>>
    /\ ReadFile(tmp) # View

\* C5: the store holds one record for each user_id of a call that returned
\* and no other; stats counts as many; a record is not removed.
C5_OneRecordPerUser ==
    LET v == View
    IN  /\ Keys(v) = {Str(u) : u \in applied}
        /\ Len(v) = Cardinality(applied)
        /\ Len(csv.rows) = Cardinality(applied)
        /\ StatsTotal = Cardinality(applied)
        /\ last.kind = "ok" => Keys(last.pre) \subseteq Keys(v)

\* Two calls for one user_id have returned: one record.
C5_Witness ==
    /\ last.kind = "ok"
    /\ ncalls = 2
    /\ Keys(last.pre) = {Str(last.call.user_id)}
    /\ StatsTotal = 1

\* C6: a call leaves the first_seen of every record it found as it was.
C6_FirstSeenKept ==
    last.kind = "ok" =>
        LET v == View
        IN  \A i \in 1..Len(last.pre) :
                /\ last.pre[i]["user_id"] \in Keys(v)
                /\ Rec(v, last.pre[i]["user_id"])["first_seen"] = last.pre[i]["first_seen"]

\* An upsert at a later time for a user_id that had a record.
C6_Witness ==
    /\ last.kind = "ok"
    /\ last.call.op = "upsert"
    /\ Str(last.call.user_id) \in Keys(last.pre)
    /\ Rec(last.pre, Str(last.call.user_id))["first_seen"] # last.now
    /\ Rec(View, Str(last.call.user_id))["last_participated"] = last.now

\* C7: first_seen <= last_participated in every record of the store, as
\* Python compares the two texts.
C7_FirstSeenNotAfterLast ==
    LET v == View
    IN  \A i \in 1..Len(v) : StrLeq(v[i]["first_seen"], v[i]["last_participated"])

\* A record whose last_participated is later than its first_seen.
C7_Witness ==
    \E i \in 1..Len(View) :
        /\ View[i]["first_seen"] # View[i]["last_participated"]
        /\ View[i]["first_seen"] = IsoFormat(0)
        /\ View[i]["last_participated"] = IsoFormat(1)

\* C8: the lang of every record of the store is in LANGS.
C8_LangSupported ==
    LET v == View
    IN  \A i \in 1..Len(v) : InLangs(v[i]["lang"])

\* A call with a lang that is not in LANGS has returned.
C8_Witness ==
    /\ last.kind = "ok"
    /\ ~InLangs(last.call.lang)
    /\ Str(last.call.user_id) \in Keys(View)

\* C9: upsert_participant for a user_id that had a record leaves its lang as
\* it was when the lang given is None or not in LANGS, and stores the lang
\* given when it is in LANGS.
C9_UpsertLangOfExisting ==
    (/\ last.kind = "ok"
     /\ last.call.op = "upsert"
     /\ Str(last.call.user_id) \in Keys(last.pre)) =>
        Rec(View, Str(last.call.user_id))["lang"] =
            IF InLangs(last.call.lang)
            THEN last.call.lang
            ELSE Rec(last.pre, Str(last.call.user_id))["lang"]

\* An upsert with an unsupported lang over a record whose lang was "uz".
C9_Witness ==
    /\ last.kind = "ok"
    /\ last.call.op = "upsert"
    /\ ~InLangs(last.call.lang)
    /\ Str(last.call.user_id) \in Keys(last.pre)
    /\ Rec(last.pre, Str(last.call.user_id))["lang"] = "uz"
    /\ Rec(View, Str(last.call.user_id))["lang"] = "uz"

\* C10: after upsert_participant returns, the record of the user_id has the
\* username, full_name and source given and last_participated = now; a record
\* made by the call has first_seen = last_participated and the lang given if
\* it is in LANGS, "ru" if not.
C10_UpsertResult ==
    (last.kind = "ok" /\ last.call.op = "upsert") =>
        LET key == Str(last.call.user_id)
            v == View
            r == Rec(v, key)
        IN  /\ key \in Keys(v)
            /\ r["username"] = last.call.username
            /\ r["full_name"] = last.call.full_name
            /\ r["source"] = last.call.source
            /\ r["last_participated"] = last.now
            /\ key \notin Keys(last.pre) =>
                /\ r["first_seen"] = r["last_participated"]
                /\ r["lang"] = IF InLangs(last.call.lang) THEN last.call.lang ELSE "ru"

\* An upsert with lang None made the first record of the store.
C10_Witness ==
    /\ last.kind = "ok"
    /\ last.call.op = "upsert"
    /\ last.call.lang = NoneArg
    /\ last.pre = <<>>
    /\ Len(View) = 1
    /\ View[1]["lang"] = "ru"
    /\ View[1]["source"] = "/start"

\* C11: get_user_lang(u) always answers with a supported code: the stored
\* lang when u has a record whose lang is supported, and the default "ru"
\* when u has no record or the stored lang is missing or not supported.
C11_GetUserLangSupported ==
    out.op = "get_user_lang" =>
        LET v == View
            i == DictFind(v, Str(out.user_id))
        IN  /\ out.result \in {LANGS[k] : k \in 1..Len(LANGS)}
            /\ IF i # 0 /\ v[i]["lang"] \in {"ru", "uz"}
               THEN out.result = v[i]["lang"]
               ELSE out.result = "ru"

\* A record with a foreign lang was asked for and the answer was the default.
C11_Witness ==
    /\ out.op = "get_user_lang"
    /\ DictFind(View, Str(out.user_id)) # 0
    /\ Rec(View, Str(out.user_id))["lang"] = "en"
    /\ out.result = "ru"


\* C12: after set_user_lang(u, lang) returns, the record of u holds lang when
\* lang is a supported code and "ru" otherwise, and get_user_lang(u) answers
\* with that code; when u had no record, the new record has source "lang",
\* an empty username and full_name, and first_seen = last_participated.
C12_SetLangStoresNormalized ==
    (last.kind = "ok" /\ last.call.op = "set_lang") =>
        LET v == View
            key == Str(last.call.user_id)
            code == IF last.call.lang \in {"ru", "uz"} THEN last.call.lang ELSE "ru"
        IN  /\ key \in Keys(v)
            /\ Rec(v, key)["lang"] = code
            /\ GetUserLang(csv, last.call.user_id) = code
            /\ key \notin Keys(last.pre) =>
                  /\ Rec(v, key)["source"] = "lang"
                  /\ Rec(v, key)["username"] = ""
                  /\ Rec(v, key)["full_name"] = ""
                  /\ Rec(v, key)["first_seen"] = Rec(v, key)["last_participated"]

\* set_user_lang with an unsupported code made the record of a new user, next
\* to the record of another user.
C12_Witness ==
    /\ last.kind = "ok"
    /\ last.call.op = "set_lang"
    /\ last.call.lang = "en"
    /\ last.pre # <<>>
    /\ Str(last.call.user_id) \notin Keys(last.pre)
    /\ Rec(View, Str(last.call.user_id))["lang"] = "ru"

\* C17: set_user_lang for a user who has a record changes the lang of that
\* record and nothing else: the other fields of the record and the records
\* of the other users stay, and the same call made again leaves the store
\* as the first one left it.  (A record has its seven fields: a line that
\* was short by the lang is written back with an empty one.)
C17_SetLangChangesOnlyLang ==
    (last.kind = "ok" /\ last.call.op = "set_lang"
        /\ Str(last.call.user_id) \in Keys(last.pre)
        /\ \A i \in 1..Len(last.pre) : last.pre[i]["lang"] # NoneArg) =>
        LET v == View
            key == Str(last.call.user_id)
        IN  /\ Len(v) = Len(last.pre)
            /\ \A i \in 1..Len(v) :
                  /\ v[i]["user_id"] = last.pre[i]["user_id"]
                  /\ \A k \in {"username", "full_name", "first_seen",
                                "last_participated", "source"} :
                        v[i][k] = last.pre[i][k]
                  /\ v[i]["user_id"] # key => v[i]["lang"] = last.pre[i]["lang"]
            /\ \A n \in clock..(clock + 1) : SetLang(v, last.call, IsoFormat(n)) = v

\* set_user_lang changed the lang of a record made at an earlier time, with
\* the records of two other users in the store.
C17_Witness ==
    /\ last.kind = "ok"
    /\ last.call.op = "set_lang"
    /\ Str(last.call.user_id) \in Keys(last.pre)
    /\ Len(last.pre) = 3
    /\ \A i \in 1..Len(last.pre) : last.pre[i]["lang"] # NoneArg
    /\ Rec(View, Str(last.call.user_id))["lang"] # Rec(last.pre, Str(last.call.user_id))["lang"]
    /\ Rec(View, Str(last.call.user_id))["last_participated"] # last.now


\* C13: the per-language counts of stats partition the records: a record
\* whose lang is a supported code is counted under that code, a record whose
\* lang is missing or not supported (a foreign code read from the file
\* included) is counted under the default "ru", and the counts sum to the
\* total.
C13_StatsPartition ==
    out.op = "stats" =>
        LET v == View
            supported(c) == {i \in 1..Len(v) : v[i]["lang"] = c}
            fallback == {i \in 1..Len(v) : v[i]["lang"] \notin {"ru", "uz"}}
        IN  /\ out.total = Len(v)
            /\ out.by_lang["uz"] = Cardinality(supported("uz"))
            /\ out.by_lang["ru"] = Cardinality(supported("ru")) + Cardinality(fallback)
            /\ out.by_lang["ru"] + out.by_lang["uz"] = out.total


\* C14: for every store and every size n, the listing of list_participants
\* is the first min(n, count) records in the order of last_participated
\* descending, records with an equal last_participated in the order of the
\* store; the listing is empty exactly when the store is.
C14_ListingOrder ==
    out.op = "list" =>
        LET v == View
            before_(k, i) ==
                \/ StrLeq(v[i]["last_participated"], v[k]["last_participated"])
                   /\ v[i]["last_participated"] # v[k]["last_participated"]
                \/ v[i]["last_participated"] = v[k]["last_participated"] /\ k < i
            place(i) == 1 + Cardinality({k \in 1..Len(v) : before_(k, i)})
        IN  /\ Len(out.rows) = (IF out.n < Len(v) THEN out.n ELSE Len(v))
            /\ \A i \in 1..Len(v) :
                  place(i) <= Len(out.rows) => out.rows[place(i)] = v[i]
            /\ out.empty <=> (v = <<>>)

\* A listing cut to two of three records, two of them with the same
\* last_participated, the later one of the store first in time.
C14_Witness ==
    /\ out.op = "list"
    /\ out.n = 2
    /\ Len(View) = 3
    /\ View[1]["last_participated"] = View[3]["last_participated"]
    /\ StrLeq(View[1]["last_participated"], View[2]["last_participated"])
    /\ View[1]["last_participated"] # View[2]["last_participated"]
    /\ out.rows = <<View[2], View[1]>>

\* C15: the size asked of list_participants becomes an integer in 1..200: an
\* integer below 1 becomes 1, one above 200 becomes 200, one in the range is
\* kept, and no argument or one that is not an integer becomes 20.
C15_ListSizeClamped ==
    out.op = "list" =>
        /\ out.n \in 1..200
        /\ out.args = <<>> => out.n = 20
        /\ out.args \in {<< <<"a", "b", "c">> >>, << <<"1", ".", "5">> >>, << <<"-">> >>}
              => out.n = 20
        /\ out.args \in {<< <<"0">> >>, << <<"-", "3">> >>} => out.n = 1
        /\ out.args \in {<< <<"2", "0", "1">> >>, << <<"5", "0", "0">> >>} => out.n = 200
        /\ out.args = << <<"1">> >> => out.n = 1
        /\ out.args = << <<"+", "2">> >> => out.n = 2
        /\ out.args = << <<"2", "0", "0">> >> => out.n = 200

\* /list -3 answered with one record of a store of two.
C15_Witness ==
    /\ out.op = "list"
    /\ out.args = << <<"-", "3">> >>
    /\ out.n = 1
    /\ Len(View) = 2
    /\ Len(out.rows) = 1


\* C16: in the text export every data line splits on the tab into exactly
\* seven columns, for every stored record, records whose username,
\* full_name or source hold a tab included, and the lines are in the order
\* of last_participated descending.
C16_ExportSevenColumns ==
    out.op = "export_txt" =>
        /\ Len(out.lines) = Len(View)
        /\ \A i \in 1..Len(out.lines) :
              Len(SplitTab(out.lines[i], <<>>, <<>>)) = Len(CSV_HEADER)
        /\ \A i \in 1..Len(out.rows), j \in 1..Len(out.rows) :
              i < j => StrLeq(out.rows[j]["last_participated"], out.rows[i]["last_participated"])


\* C19: the temporary file is never written by two saves at once, and when
\* os.replace moves it, it holds the header and the complete record set of
\* the one _save_participants call that wrote it, whatever an earlier save
\* that failed left at the path.
C19_TmpWrittenByOneSave ==
    /\ Cardinality({t \in Tasks : pc[t] \in SaveSteps}) <= 1
    /\ \A t \in Tasks :
          pc[t] = "replace" =>
            /\ tmp.exists
            /\ tmp.hdr = CSV_HEADER
            /\ Len(tmp.rows) = Len(data[t])
            /\ ReadFile(tmp) = data[t]

\* A save of two records is about to move the temporary file.
C19_Witness ==
    \E t \in Tasks :
        /\ pc[t] = "replace"
        /\ Len(data[t]) = 2
        /\ ReadFile(tmp) = data[t]
        /\ csv # tmp


C20_EnsureKeepsRecords ==
    /\ \A t \in Tasks : pc[t] = "ensure_header" => serial = <<>>
    /\ Keys(serial) \subseteq Keys(View)
    /\ out.op = "export_csv" => ReadFile(out.file) = serial

\* export_cmd ran _ensure_csv on a store with a record while a button
\* handler was suspended at its await.
C20_Witness ==
    /\ out.op = "export_csv"
    /\ serial # <<>>
    /\ ReadFile(csv) = serial
    /\ \E t \in Tasks : pc[t] = "await_answer"


====
